---- MODULE Spec2Model ----
(***************************************************************************)
(* Model of the MgtLogin web component                                     *)
(* (src/src/components/mgt-login/mgt-login.ts).                            *)
(*                                                                         *)
(* The widget is a single-threaded, event-loop driven component.  Every    *)
(* synchronous run of code (from the entry of a method to its first await, *)
(* and from the resumption after an await to the end of the method) is one *)
(* atomic action.  The collaborators that are not part of the file (the    *)
(* authentication provider, the batched graph fetch, the flyout element,   *)
(* the listeners of the custom events and the host page) are modelled as   *)
(* nondeterministic environment actions.                                   *)
(***************************************************************************)
EXTENDS Integers, Sequences, FiniteSets, TLC

(***************************************************************************)
(* Bounds of the model.                                                    *)
(***************************************************************************)
\* number of login()/logout()/loadState() invocations in one behaviour
MaxCalls == 2

Calls == 1..MaxCalls

(***************************************************************************)
(* Values.                                                                 *)
(***************************************************************************)
\* null / undefined: "no user details", "no image"
NULL == <<>>
\* response.me of the batch issued by invocation i
Me(i) == <<"me", i>>
\* response.photo of the batch issued by invocation i
Photo(i) == <<"photo", i>>
\* user details injected by the host page through the userDetails property
Override == <<"override">>

\* ProviderState (IProvider): the enum owned by the provider
ProviderStates == {"SignedOut", "SignedIn", "Loading"}

\* Providers.globalProvider: unset, set without login/logout operations, or
\* set with both operations
ProviderKinds == {"none", "bare", "full"}

VARIABLES
  userDetails,    \* this.userDetails
  image,          \* this._image
  isFlyoutOpen,   \* this._isFlyoutOpen
  hasFlyout,      \* this.flyout is non-null (the template has been rendered)
  providerKind,   \* what Providers.globalProvider is
  providerState,  \* provider.state
  calls,          \* number of invocations started so far
  op,             \* op[i]: the method invocation i runs
  pc,             \* pc[i]: where invocation i stands
  trace,          \* trace[i]: events fired and calls made by invocation i
  stateRead,      \* stateRead[i]: provider.state as read by login() after its await
  cancelled,      \* invocations whose "initiated" event a listener cancelled
  clickParity,    \* number of clicks on the button handled so far, modulo 2
  observed        \* what the listeners of the last custom event saw

vars == <<userDetails, image, isFlyoutOpen, hasFlyout, providerKind,
          providerState, calls, op, pc, trace, stateRead, cancelled,
          clickParity, observed>>

(***************************************************************************)
(* Helpers on the history of an invocation.                                *)
(***************************************************************************)
HasIn(t, e) == \E k \in DOMAIN t : t[k] = e

CountIn(t, e) == Cardinality({k \in DOMAIN t : t[k] = e})

Has(i, e) == HasIn(trace[i], e)

\* the state a listener of event ev, fired by invocation i, observes during
\* the dispatch: the fields as they are at the fireCustomEvent call
Snapshot(i, ev, details, img, open) ==
  [id |-> i, ev |-> ev, userDetails |-> details, image |-> img, isFlyoutOpen |-> open]

(***************************************************************************)
(* The flyout element: open()/close() and the opened/closed handlers.      *)
(***************************************************************************)
\* @opened handler: this._isFlyoutOpen = true
OnOpened == TRUE

\* @closed handler: this._isFlyoutOpen = false
OnClosed == FALSE

\* MgtFlyout.open(): the flyout opens and dispatches "opened" before it returns
FlyoutOpen(open) == OnOpened

\* MgtFlyout.close(): the flyout closes and dispatches "closed" before it returns
FlyoutClose(open) == OnClosed

\* showFlyout(): flyout.open() when the flyout exists
showFlyout(flyout, open) == IF flyout THEN FlyoutOpen(open) ELSE open

\* a hideFlyout() that does not close the flyout
hideFlyoutKeepsOpen(flyout, open) == open

\* hideFlyout(): flyout.close() when the flyout exists
hideFlyout(flyout, open) == IF flyout THEN FlyoutClose(open) ELSE open

(***************************************************************************)
(* login()                                                                 *)
(***************************************************************************)
\* a login() that fires loginInitiated whatever userDetails is
FiresLoginInitiatedAlways(details) == TRUE

\* line 112, left operand of ||: the event is dispatched only when there are
\* no user details
FiresLoginInitiated(details) == details = NULL

\* a login() that ignores the result of fireCustomEvent
LoginProceedsIgnoringCancel(details, notCancelled) == details = NULL

\* a login() that returns while another login() is suspended at the provider
LoginProceedsUnlessInFlight(details, notCancelled) ==
  /\ details = NULL /\ notCancelled
  /\ ~\E j \in Calls : op[j] = "login" /\ pc[j] \in {"await", "settled", "rejected"}

\* line 112: login() goes on iff there are no user details and the
\* loginInitiated event was not cancelled
LoginProceeds(details, notCancelled) == details = NULL /\ notCancelled

\* line 118: provider && provider.login
HasLogin(kind) == kind = "full"

\* a classification that never reports success
LoginOutcomeAlwaysFailed(state) == "loginFailed"

\* a classification that never reports failure
LoginOutcomeAlwaysCompleted(state) == "loginCompleted"

\* lines 121-125: the event fired after the await
LoginOutcome(state) == IF state = "SignedIn" THEN "loginCompleted" ELSE "loginFailed"

\* login() from its entry to the await of provider.login() (or to its return)
StartLogin(i, cancel) ==
  /\ calls' = i
  /\ op' = [op EXCEPT ![i] = "login"]
  /\ observed' = IF FiresLoginInitiated(userDetails)
                 THEN Snapshot(i, "loginInitiated", userDetails, image, isFlyoutOpen)
                 ELSE observed
  /\ cancelled' = IF FiresLoginInitiated(userDetails) /\ cancel
                  THEN cancelled \cup {i}
                  ELSE cancelled
  /\ LET fired == IF FiresLoginInitiated(userDetails) THEN <<"loginInitiated">> ELSE <<>>
         goesOn == LoginProceeds(userDetails, ~cancel) /\ HasLogin(providerKind)
     IN  /\ trace' = [trace EXCEPT ![i] =
                        fired \o (IF goesOn THEN <<"providerLogin">> ELSE <<>>)]
         /\ pc' = [pc EXCEPT ![i] = IF goesOn THEN "await" ELSE "done"]
         \* the provider may report Loading while its login is in progress
         /\ IF goesOn
            THEN providerState' \in {providerState, "Loading"}
            ELSE providerState' = providerState
  /\ UNCHANGED <<userDetails, image, isFlyoutOpen, hasFlyout, providerKind, stateRead>>

\* a call of the public login() method
Login(cancel) ==
  /\ calls < MaxCalls
  /\ StartLogin(calls + 1, cancel)
  /\ UNCHANGED clickParity

\* provider.login() settles: the provider has set its state, and its promise
\* is resolved (ok) or rejected
ProviderLoginSettle(i, s, ok) ==
  /\ op[i] = "login" /\ pc[i] = "await"
  /\ providerState' = s
  /\ pc' = [pc EXCEPT ![i] = IF ok THEN "settled" ELSE "rejected"]
  /\ trace' = [trace EXCEPT ![i] =
                 Append(@, IF ok THEN "providerLoginReturned" ELSE "providerLoginThrew")]
  /\ UNCHANGED <<userDetails, image, isFlyoutOpen, hasFlyout, providerKind,
                 calls, op, stateRead, cancelled, clickParity, observed>>

\* an await after which the method always leaves as if by an exception
AwaitReturnsNever(p) == FALSE

\* an await wrapped in a try/catch that swallows the rejection
AwaitReturnsAlways(p) == TRUE

\* lines 119 and 142: the statements after the await run only if the awaited
\* promise was resolved; a rejection leaves the method at the await
AwaitReturns(p) == p = "settled"

\* a comparison written as an assignment: provider.state = SignedIn
ProviderStateAssigned(state) == "SignedIn"

\* line 121: provider.state is compared, not assigned
ProviderStateCompared(state) == state

\* login() resumes after the await
LoginResume(i) ==
  /\ op[i] = "login" /\ pc[i] \in {"settled", "rejected"}
  /\ IF AwaitReturns(pc[i])
     THEN /\ stateRead' = [stateRead EXCEPT ![i] = providerState]
          /\ providerState' = ProviderStateCompared(providerState)
          /\ trace' = [trace EXCEPT ![i] = Append(@, LoginOutcome(providerState))]
          /\ observed' = Snapshot(i, LoginOutcome(providerState),
                                  userDetails, image, isFlyoutOpen)
          /\ pc' = [pc EXCEPT ![i] = "done"]
     ELSE \* the rejection propagates out of login()
          /\ pc' = [pc EXCEPT ![i] = "threw"]
          /\ UNCHANGED <<stateRead, trace, observed, providerState>>
  /\ UNCHANGED <<userDetails, image, isFlyoutOpen, hasFlyout, providerKind,
                 calls, op, cancelled, clickParity>>

(***************************************************************************)
(* logout()                                                                *)
(***************************************************************************)
\* a logout() that ignores the result of fireCustomEvent
LogoutProceedsIgnoringCancel(notCancelled) == TRUE

\* line 136: logout() goes on iff the logoutInitiated event was not cancelled
LogoutProceeds(notCancelled) == notCancelled

\* a logout() that calls provider.logout() without testing that it exists
HasLogoutUnchecked(kind) == TRUE

\* line 141: provider && provider.logout
HasLogout(kind) == kind = "full"

\* logout() from its entry to the await of provider.logout() (or to its return)
StartLogout(i, cancel) ==
  /\ calls' = i
  /\ op' = [op EXCEPT ![i] = "logout"]
  /\ observed' = Snapshot(i, "logoutInitiated", userDetails, image, isFlyoutOpen)
  /\ cancelled' = IF cancel THEN cancelled \cup {i} ELSE cancelled
  /\ LET goesOn == LogoutProceeds(~cancel) /\ HasLogout(providerKind)
     IN  /\ trace' = [trace EXCEPT ![i] =
                        <<"logoutInitiated">> \o
                        (IF goesOn THEN <<"providerLogout">> ELSE <<>>)]
         /\ pc' = [pc EXCEPT ![i] = IF goesOn THEN "await" ELSE "done"]
         \* the provider may report Loading while its logout is in progress
         /\ IF goesOn
            THEN providerState' \in {providerState, "Loading"}
            ELSE providerState' = providerState
  /\ UNCHANGED <<userDetails, image, isFlyoutOpen, hasFlyout, providerKind, stateRead>>

\* a call of logout(): the public method, or the Sign Out button of the flyout
Logout(cancel) ==
  /\ calls < MaxCalls
  /\ StartLogout(calls + 1, cancel)
  /\ UNCHANGED clickParity

\* provider.logout() settles: the provider has set its state, and its promise
\* is resolved (ok) or rejected
ProviderLogoutSettle(i, s, ok) ==
  /\ op[i] = "logout" /\ pc[i] = "await"
  /\ providerState' = s
  /\ pc' = [pc EXCEPT ![i] = IF ok THEN "settled" ELSE "rejected"]
  /\ trace' = [trace EXCEPT ![i] =
                 Append(@, IF ok THEN "providerLogoutReturned" ELSE "providerLogoutThrew")]
  /\ UNCHANGED <<userDetails, image, isFlyoutOpen, hasFlyout, providerKind,
                 calls, op, stateRead, cancelled, clickParity, observed>>

\* logout() resumes after the await: lines 143-145 in their order
LogoutResume(i) ==
  /\ op[i] = "logout" /\ pc[i] \in {"settled", "rejected"}
  /\ IF AwaitReturns(pc[i])
     THEN LET details == NULL
              open == hideFlyout(hasFlyout, isFlyoutOpen)
          IN  /\ userDetails' = details
              /\ isFlyoutOpen' = open
              /\ observed' = Snapshot(i, "logoutCompleted", details, image, open)
              /\ trace' = [trace EXCEPT ![i] = Append(@, "logoutCompleted")]
              /\ pc' = [pc EXCEPT ![i] = "done"]
     ELSE \* the rejection propagates out of logout()
          /\ pc' = [pc EXCEPT ![i] = "threw"]
          /\ UNCHANGED <<userDetails, isFlyoutOpen, observed, trace>>
  /\ UNCHANGED <<image, hasFlyout, providerKind, providerState, calls, op,
                 stateRead, cancelled, clickParity>>

(***************************************************************************)
(* loadState()                                                             *)
(***************************************************************************)
\* a loadState() that does not look at the user details already present
LoadStateEntersAnyDetails(kind, details) == kind # "none"

\* line 174: provider && !this.userDetails
LoadStateEnters(kind, details) == kind # "none" /\ details = NULL

\* line 175: the batch is issued iff the provider is signed in
LoadStateFetches(kind, details, state) ==
  LoadStateEnters(kind, details) /\ state = "SignedIn"

\* loadState() from its entry to the await of batch.execute() (or to its return)
LoadState ==
  /\ calls < MaxCalls
  /\ LET i == calls + 1
         fetches == LoadStateFetches(providerKind, userDetails, providerState)
     IN  /\ calls' = i
         /\ op' = [op EXCEPT ![i] = "loadState"]
         /\ trace' = [trace EXCEPT ![i] = IF fetches THEN <<"fetch">> ELSE <<>>]
         /\ pc' = [pc EXCEPT ![i] = IF fetches THEN "await" ELSE "done"]
         /\ userDetails' = IF LoadStateEnters(providerKind, userDetails) /\ ~fetches
                           THEN NULL
                           ELSE userDetails
  /\ UNCHANGED <<image, isFlyoutOpen, hasFlyout, providerKind, providerState,
                 stateRead, cancelled, clickParity, observed>>

\* batch.execute() settles: resolved with the response (ok) or rejected
BatchSettle(i, ok) ==
  /\ op[i] = "loadState" /\ pc[i] = "await"
  /\ pc' = [pc EXCEPT ![i] = IF ok THEN "settled" ELSE "rejected"]
  /\ trace' = [trace EXCEPT ![i] = Append(@, IF ok THEN "fetchReturned" ELSE "fetchThrew")]
  /\ UNCHANGED <<userDetails, image, isFlyoutOpen, hasFlyout, providerKind,
                 providerState, calls, op, stateRead, cancelled, clickParity, observed>>

\* a loadState() that does not store the photo
LoadedImageForgotten(i, img) == img

\* line 181: this._image = response.photo
LoadedImage(i, img) == Photo(i)

\* line 182: this.userDetails = response.me
LoadedDetails(i, details) == Me(i)

\* loadState() resumes after the await: lines 181-182
LoadStateResume(i) ==
  /\ op[i] = "loadState" /\ pc[i] \in {"settled", "rejected"}
  /\ IF pc[i] = "settled"
     THEN /\ image' = LoadedImage(i, image)
          /\ userDetails' = LoadedDetails(i, userDetails)
          /\ pc' = [pc EXCEPT ![i] = "done"]
     ELSE \* the rejection propagates out of loadState()
          /\ pc' = [pc EXCEPT ![i] = "threw"]
          /\ UNCHANGED <<image, userDetails>>
  /\ UNCHANGED <<isFlyoutOpen, hasFlyout, providerKind, providerState, calls, op,
                 trace, stateRead, cancelled, clickParity, observed>>

(***************************************************************************)
(* The button, the flyout and the host page.                               *)
(***************************************************************************)
\* a click handler that shows the flyout whatever userDetails is
ClickShowsFlyoutAlways(details) == TRUE

\* line 329: if (this.userDetails)
ClickShowsFlyout(details) == details # NULL

\* onClick(): the flyout when there are user details, login() otherwise
OnClick(cancel) ==
  /\ hasFlyout  \* the button exists once the template is rendered
  /\ clickParity' = 1 - clickParity
  /\ IF ClickShowsFlyout(userDetails)
     THEN /\ isFlyoutOpen' = showFlyout(hasFlyout, isFlyoutOpen)
          /\ UNCHANGED <<userDetails, image, hasFlyout, providerKind, providerState,
                         calls, op, pc, trace, stateRead, cancelled, observed>>
     ELSE /\ calls < MaxCalls
          /\ StartLogin(calls + 1, cancel)

\* the host page assigns the userDetails property
SetUserDetails(v) ==
  /\ userDetails' = v
  /\ UNCHANGED <<image, isFlyoutOpen, hasFlyout, providerKind, providerState,
                 calls, op, pc, trace, stateRead, cancelled, clickParity, observed>>

\* first render(): the button and the flyout element exist from now on
Render ==
  /\ ~hasFlyout
  /\ hasFlyout' = TRUE
  /\ UNCHANGED <<userDetails, image, isFlyoutOpen, providerKind, providerState,
                 calls, op, pc, trace, stateRead, cancelled, clickParity, observed>>

\* the open flyout is dismissed (light-dismiss): it dispatches "closed"
FlyoutDismiss ==
  /\ hasFlyout /\ isFlyoutOpen
  /\ isFlyoutOpen' = OnClosed
  /\ UNCHANGED <<userDetails, image, hasFlyout, providerKind, providerState,
                 calls, op, pc, trace, stateRead, cancelled, clickParity, observed>>

Init ==
  /\ userDetails = NULL
  /\ image = NULL
  /\ isFlyoutOpen = FALSE
  /\ hasFlyout = FALSE
  /\ providerKind \in ProviderKinds
  /\ providerState \in ProviderStates
  /\ calls = 0
  /\ op = [i \in Calls |-> "none"]
  /\ pc = [i \in Calls |-> "idle"]
  /\ trace = [i \in Calls |-> <<>>]
  /\ stateRead = [i \in Calls |-> "unread"]
  /\ cancelled = {}
  /\ clickParity = 0
  /\ observed = Snapshot(0, "none", NULL, NULL, FALSE)

Next ==
  \/ \E cancel \in BOOLEAN : Login(cancel)
  \/ \E i \in Calls, s \in ProviderStates, ok \in BOOLEAN : ProviderLoginSettle(i, s, ok)
  \/ \E i \in Calls : LoginResume(i)
  \/ \E cancel \in BOOLEAN : Logout(cancel)
  \/ \E i \in Calls, s \in ProviderStates, ok \in BOOLEAN : ProviderLogoutSettle(i, s, ok)
  \/ \E i \in Calls : LogoutResume(i)
  \/ LoadState
  \/ \E i \in Calls, ok \in BOOLEAN : BatchSettle(i, ok)
  \/ \E i \in Calls : LoadStateResume(i)
  \/ \E cancel \in BOOLEAN : OnClick(cancel)
  \/ \E v \in {NULL, Override} : SetUserDetails(v)
  \/ Render
  \/ FlyoutDismiss

Spec == Init /\ [][Next]_vars

(***************************************************************************)
(* Steps of an invocation, as seen from a pair of states.                  *)
(***************************************************************************)
\* the step is the entry of invocation i, running method m
Starts(i, m) == calls = i - 1 /\ calls' = i /\ op'[i] = m

\* the step is the return (normal or by exception) of invocation i
Ends(i) == pc[i] \notin {"done", "threw"} /\ pc'[i] \in {"done", "threw"}

\* the widget's own fields are left as they are
WidgetUnchanged == UNCHANGED <<userDetails, image, isFlyoutOpen>>

(***************************************************************************)
(* Properties.                                                             *)
(***************************************************************************)

\* C1: a login() whose await of provider.login() returned with the provider
\* SignedIn has fired loginCompleted and has not fired loginFailed.
C1_SignedInCompletes ==
  \A i \in Calls :
    (op[i] = "login" /\ stateRead[i] = "SignedIn")
      => (Has(i, "loginCompleted") /\ ~Has(i, "loginFailed"))

C1_Witness ==
  \E i \in Calls :
    /\ op[i] = "login" /\ pc[i] = "done"
    /\ Has(i, "providerLoginReturned")
    /\ stateRead[i] = "SignedIn"
    /\ Has(i, "loginCompleted")

\* C2: a login() whose await of provider.login() returned with the provider
\* in any state other than SignedIn (SignedOut or Loading) has fired
\* loginFailed and has not fired loginCompleted.
C2_NotSignedInFails ==
  \A i \in Calls :
    (op[i] = "login" /\ stateRead[i] \in {"SignedOut", "Loading"})
      => (Has(i, "loginFailed") /\ ~Has(i, "loginCompleted"))

C2_Witness ==
  \E i, j \in Calls :
    /\ op[i] = "login" /\ stateRead[i] = "SignedOut" /\ Has(i, "loginFailed")
    /\ op[j] = "login" /\ stateRead[j] = "Loading" /\ Has(j, "loginFailed")

\* C3 as stated: the listeners of logoutCompleted see userDetails null and
\* the flyout flag false, and every logout() invocation, whatever its course,
\* ends with user details cleared and the flyout closed.
C3_EveryLogoutClears ==
  [][ /\ (observed'.ev = "logoutCompleted"
            => (observed'.userDetails = NULL /\ ~observed'.isFlyoutOpen))
      /\ \A i \in Calls :
           (op'[i] = "logout" /\ Ends(i)) => (userDetails' = NULL /\ ~isFlyoutOpen')
    ]_vars

\* C3 amended: the listeners of logoutCompleted see userDetails null and the
\* flyout flag false, and every logout() invocation that fires
\* logoutCompleted ends with user details cleared and the flyout closed.
C3_CompletedLogoutClears ==
  [][ /\ (observed'.ev = "logoutCompleted"
            => (observed'.userDetails = NULL /\ ~observed'.isFlyoutOpen))
      /\ \A i \in Calls :
           (op'[i] = "logout" /\ Ends(i) /\ HasIn(trace'[i], "logoutCompleted"))
             => /\ observed' = Snapshot(i, "logoutCompleted", NULL, image', FALSE)
                /\ userDetails' = NULL
                /\ ~isFlyoutOpen'
    ]_vars

\* a logout() that found the flyout open over user details has completed
C3_Witness ==
  \E i \in Calls :
    /\ op[i] = "logout" /\ pc[i] = "done"
    /\ Has(i, "logoutCompleted")
    /\ observed = Snapshot(i, "logoutCompleted", NULL, NULL, FALSE)
    /\ hasFlyout /\ ~isFlyoutOpen /\ userDetails = NULL
    /\ \E j \in Calls : op[j] = "login" /\ j < i /\ trace[j] = <<>>

\* C4: a login() whose loginInitiated event was cancelled by a listener never
\* calls provider.login() and fires neither loginCompleted nor loginFailed.
C4_CancelledLoginStops ==
  \A i \in Calls :
    (op[i] = "login" /\ i \in cancelled)
      => /\ trace[i] = <<"loginInitiated">>
         /\ pc[i] = "done"
         /\ ~Has(i, "providerLogin")
         /\ ~Has(i, "loginCompleted")
         /\ ~Has(i, "loginFailed")

C4_Witness ==
  \E i \in Calls :
    /\ op[i] = "login" /\ i \in cancelled
    /\ providerKind = "full"
    /\ pc[i] = "done"

\* C5: login() entered while userDetails is non-null returns at once: it
\* fires no event, calls no provider operation and leaves userDetails, the
\* image and the flyout flag as they were.
C5_LoginWithDetailsIsNoOp ==
  [][ \A i \in Calls :
        (Starts(i, "login") /\ userDetails # NULL)
          => /\ trace'[i] = <<>>
             /\ pc'[i] = "done"
             /\ observed' = observed
             /\ trace' = [trace EXCEPT ![i] = <<>>]
             /\ providerState' = providerState
             /\ WidgetUnchanged
    ]_vars

C5_Witness ==
  \E i \in Calls :
    /\ op[i] = "login" /\ pc[i] = "done" /\ trace[i] = <<>>
    /\ providerKind = "full"
    /\ userDetails = Override

\* C6: a logout() whose logoutInitiated event was cancelled by a listener
\* returns at once: it never calls provider.logout(), never fires
\* logoutCompleted and leaves userDetails, the image and the flyout flag as
\* they were.
C6_CancelledLogoutIsNoOp ==
  [][ \A i \in Calls :
        /\ (op'[i] = "logout" /\ i \in cancelled')
             => /\ trace'[i] = <<"logoutInitiated">>
                /\ pc'[i] = "done"
        /\ (Starts(i, "logout") /\ i \in cancelled')
             => /\ providerState' = providerState
                /\ WidgetUnchanged
    ]_vars

C6_Witness ==
  \E i \in Calls :
    /\ op[i] = "logout" /\ i \in cancelled /\ pc[i] = "done"
    /\ providerKind = "full"
    /\ userDetails # NULL /\ image # NULL /\ isFlyoutOpen

\* C7: in every reachable state, the flyout flag being true implies that
\* userDetails is non-null.
C7_FlyoutOpenImpliesDetails == isFlyoutOpen => userDetails # NULL

\* C8: a loadState() entered with a provider that is SignedIn and no user
\* details issues exactly one batch, and its response reaches the image and
\* userDetails in one and the same step: no step stores one without the other.
C8_LoadStatePopulatesAtomically ==
  [][ \A i \in Calls :
        /\ (Starts(i, "loadState") /\ providerKind # "none"
              /\ providerState = "SignedIn" /\ userDetails = NULL)
             => (trace'[i] = <<"fetch">> /\ pc'[i] = "await")
        /\ op'[i] = "loadState" => CountIn(trace'[i], "fetch") <= 1
        /\ (op[i] = "loadState" /\ pc[i] = "settled" /\ pc'[i] = "done")
             => (image' = Photo(i) /\ userDetails' = Me(i))
        /\ (image # Photo(i) /\ image' = Photo(i))
             <=> (userDetails # Me(i) /\ userDetails' = Me(i))
    ]_vars

C8_Witness ==
  \E i \in Calls :
    /\ op[i] = "loadState" /\ pc[i] = "done"
    /\ trace[i] = <<"fetch", "fetchReturned">>
    /\ image = Photo(i) /\ userDetails = Me(i)

\* the step enters loadState() in a case other than "provider signed in and
\* no user details cached"
LoadStateOtherCase(i) ==
  /\ Starts(i, "loadState")
  /\ ~(providerKind # "none" /\ providerState = "SignedIn" /\ userDetails = NULL)

\* C9 as stated: in every other case loadState() issues no batch and leaves
\* userDetails null when it returns.
C9_OtherCasesClear ==
  [][ \A i \in Calls :
        LoadStateOtherCase(i)
          => (trace'[i] = <<>> /\ pc'[i] = "done" /\ userDetails' = NULL)
    ]_vars

\* C9 amended: in every other case loadState() issues no batch and returns
\* with userDetails (and the image) as they were: null if there were none,
\* the details already present otherwise.
C9_OtherCasesKeep ==
  [][ \A i \in Calls :
        LoadStateOtherCase(i)
          => /\ trace'[i] = <<>>
             /\ pc'[i] = "done"
             /\ userDetails' = userDetails
             /\ image' = image
    ]_vars

\* a loadState() has returned without a batch although the provider has been
\* SignedIn all along: user details were present
C9_Witness ==
  /\ calls = 1 /\ op[1] = "loadState" /\ pc[1] = "done" /\ trace[1] = <<>>
  /\ providerKind = "full" /\ providerState = "SignedIn"
  /\ userDetails = Override

\* C10: the listeners of logoutCompleted see an empty cached image.
C10_LogoutClearsImage == observed.ev = "logoutCompleted" => observed.image = NULL

\* the step is the handling of a click on the button
Clicked == clickParity' # clickParity

\* C11: a click while userDetails is non-null opens the flyout and starts no
\* login (no invocation, no event, no provider call); a click while
\* userDetails is null enters login(), which fires loginInitiated, and does
\* not open the flyout.
C11_ClickRouting ==
  [][ Clicked =>
        /\ userDetails # NULL
             => /\ isFlyoutOpen'
                /\ calls' = calls /\ op' = op /\ pc' = pc /\ trace' = trace
                /\ observed' = observed
                /\ providerState' = providerState
        /\ userDetails = NULL
             => /\ Starts(calls + 1, "login")
                /\ HasIn(trace'[calls + 1], "loginInitiated")
                /\ isFlyoutOpen' = isFlyoutOpen
    ]_vars

\* clicks were handled, all of them with user details present: the flyout is
\* open and no login was started
C11_Witness ==
  /\ clickParity = 1 /\ calls = 0
  /\ userDetails = Override
  /\ isFlyoutOpen

\* what an invocation records when it calls a provider operation and when
\* that operation settles
ProviderMarks ==
  {"providerLogin", "providerLoginReturned", "providerLoginThrew",
   "providerLogout", "providerLogoutReturned", "providerLogoutThrew"}

\* in this step provider.login() or provider.logout() is called or settles
ProviderRuns ==
  \E i \in Calls :
    /\ Len(trace'[i]) > Len(trace[i])
    /\ trace'[i][Len(trace'[i])] \in ProviderMarks

\* C12: the provider state changes only in steps in which the provider's
\* login or logout operation runs (is called, or settles); the steps of
\* login(), logout(), loadState() and of the click handler that run widget
\* code alone leave it as it is.
C12_ProviderStateNotMutated ==
  [][ providerState' # providerState => ProviderRuns ]_vars

\* a login() has resumed under SignedIn and a later logout() has completed
\* under SignedOut: the state changed while the widget ran to completion
C12_Witness ==
  /\ calls = 2
  /\ op[1] = "login" /\ pc[1] = "done" /\ stateRead[1] = "SignedIn"
  /\ op[2] = "logout" /\ pc[2] = "done" /\ Has(2, "logoutCompleted")
  /\ providerState = "SignedOut"

\* C13: an invocation of login() whose provider.login() threw fires neither
\* loginCompleted nor loginFailed; an invocation of logout() whose
\* provider.logout() threw fires no logoutCompleted and, when it is resumed,
\* leaves by the exception with userDetails, the image and the flyout flag
\* as they were.
C13_ProviderExceptionsPropagate ==
  [][ \A i \in Calls :
        /\ HasIn(trace'[i], "providerLoginThrew")
             => /\ ~HasIn(trace'[i], "loginCompleted")
                /\ ~HasIn(trace'[i], "loginFailed")
                /\ pc'[i] \in {"rejected", "threw"}
        /\ HasIn(trace'[i], "providerLogoutThrew")
             => /\ ~HasIn(trace'[i], "logoutCompleted")
                /\ pc'[i] \in {"rejected", "threw"}
        /\ (op[i] \in {"login", "logout"} /\ pc[i] = "rejected" /\ pc'[i] # "rejected")
             => /\ pc'[i] = "threw"
                /\ trace'[i] = trace[i]
                /\ observed' = observed
                /\ WidgetUnchanged
    ]_vars

\* a login() and a logout() have both left by the provider's exception; the
\* logout() found user details and an open flyout, and they are still there
C13_Witness ==
  \E i, j \in Calls :
    /\ op[i] = "login" /\ pc[i] = "threw" /\ Has(i, "providerLoginThrew")
    /\ op[j] = "logout" /\ pc[j] = "threw" /\ Has(j, "providerLogoutThrew")
    /\ userDetails # NULL /\ isFlyoutOpen

\* a login() is suspended at its await of provider.login()
LoginSuspended == \E j \in Calls : op[j] = "login" /\ pc[j] \in {"await", "settled", "rejected"}

\* C14: a login() entered while another login() is suspended, with
\* userDetails still null and a provider that has the operation, fires
\* loginInitiated and, unless a listener cancels it, makes its own call of
\* provider.login(); a logout() entered while a login() is suspended fires
\* logoutInitiated and, unless cancelled, calls provider.logout().
C14_OverlapNotGuarded ==
  [][ \A i \in Calls :
        /\ (Starts(i, "login") /\ LoginSuspended /\ userDetails = NULL
              /\ providerKind = "full")
             => /\ (i \notin cancelled' =>
                      (trace'[i] = <<"loginInitiated", "providerLogin">>
                         /\ pc'[i] = "await"))
                /\ HasIn(trace'[i], "loginInitiated")
        /\ (Starts(i, "logout") /\ LoginSuspended /\ providerKind = "full")
             => /\ (i \notin cancelled' =>
                      (trace'[i] = <<"logoutInitiated", "providerLogout">>
                         /\ pc'[i] = "await"))
                /\ HasIn(trace'[i], "logoutInitiated")
    ]_vars

\* two calls of provider.login() are in flight
C14_Witness ==
  \E i, j \in Calls :
    /\ i # j
    /\ op[i] = "login" /\ pc[i] = "await" /\ Has(i, "providerLogin")
    /\ op[j] = "login" /\ pc[j] = "await" /\ Has(j, "providerLogin")

\* a logout() has fired logoutCompleted
LogoutCompleted == \E i \in Calls : op[i] = "logout" /\ Has(i, "logoutCompleted")

\* C15: once a logout() has fired logoutCompleted and userDetails is null,
\* userDetails stays null in every step that finds and leaves the provider
\* in a state other than SignedIn, unless the step is the host page
\* assigning the override.
C15_StaysSignedOut ==
  [][ (/\ LogoutCompleted
       /\ userDetails = NULL
       /\ providerState # "SignedIn" /\ providerState' # "SignedIn")
        => (userDetails' = NULL \/ userDetails' = Override)
    ]_vars

\* the step is a step of an invocation of loadState()
LoadStateSteps == \E i \in Calls : op'[i] = "loadState" /\ pc'[i] # pc[i]

\* C16: no step of loadState() replaces a non-null userDetails.
C16_LoadStateKeepsDetails ==
  [][ (LoadStateSteps /\ userDetails # NULL) => userDetails' = userDetails ]_vars

\* C17: without a provider, or with a provider that lacks the operation, a
\* login() whose loginInitiated is fired and not cancelled fires nothing else
\* and returns; a logout() whose logoutInitiated is not cancelled fires
\* nothing else, in particular no logoutCompleted, and returns with
\* userDetails, the image and the flyout flag as they were.  An invocation
\* that has returned fires nothing any more.
C17_NoProviderOperation ==
  [][ \A i \in Calls :
        /\ (Starts(i, "login") /\ providerKind # "full" /\ userDetails = NULL
              /\ i \notin cancelled')
             => /\ trace'[i] = <<"loginInitiated">>
                /\ pc'[i] = "done"
                /\ WidgetUnchanged
        /\ (Starts(i, "logout") /\ providerKind # "full" /\ i \notin cancelled')
             => /\ trace'[i] = <<"logoutInitiated">>
                /\ pc'[i] = "done"
                /\ WidgetUnchanged
        /\ pc[i] = "done" => (trace'[i] = trace[i] /\ pc'[i] = "done")
    ]_vars

\* without a provider operation, a login() and a logout() have returned
\* after their "initiated" event; the logout() left user details and an open
\* flyout in place
C17_Witness ==
  \E i, j \in Calls :
    /\ providerKind \in {"none", "bare"}
    /\ op[i] = "login" /\ pc[i] = "done" /\ trace[i] = <<"loginInitiated">>
    /\ op[j] = "logout" /\ pc[j] = "done" /\ trace[j] = <<"logoutInitiated">>
    /\ cancelled = {}
    /\ i < j
    /\ userDetails # NULL /\ isFlyoutOpen

\* in the history t, every occurrence of b comes after an occurrence of a
Precedes(t, a, b) ==
  \A k \in DOMAIN t : t[k] = b => \E j \in DOMAIN t : j < k /\ t[j] = a

\* C18: in the history of every invocation, loginCompleted and loginFailed
\* come after loginInitiated and after the return of provider.login(),
\* logoutCompleted comes after logoutInitiated and after the return of
\* provider.logout(), and there is at most one outcome event.
C18_EventOrder ==
  \A i \in Calls :
    /\ \A e \in {"loginCompleted", "loginFailed"} :
         /\ Precedes(trace[i], "loginInitiated", e)
         /\ Precedes(trace[i], "providerLoginReturned", e)
    /\ Precedes(trace[i], "logoutInitiated", "logoutCompleted")
    /\ Precedes(trace[i], "providerLogoutReturned", "logoutCompleted")
    /\ CountIn(trace[i], "loginCompleted") + CountIn(trace[i], "loginFailed")
         + CountIn(trace[i], "logoutCompleted") <= 1
    /\ (Has(i, "loginCompleted") \/ Has(i, "loginFailed")) => op[i] = "login"
    /\ Has(i, "logoutCompleted") => op[i] = "logout"

C18_Witness ==
  \E i, j \in Calls :
    /\ trace[i] = <<"loginInitiated", "providerLogin",
                    "providerLoginReturned", "loginCompleted">>
    /\ trace[j] = <<"logoutInitiated", "providerLogout",
                    "providerLogoutReturned", "logoutCompleted">>

(***************************************************************************)
(* The widget with a provider that has both operations and whose login and *)
(* logout calls return normally, under the scheduling of the event loop:   *)
(* a call in flight eventually settles, and the continuation of a settled  *)
(* await is eventually run.                                                *)
(***************************************************************************)
LiveInit == Init /\ providerKind = "full"

LiveNext ==
  \/ \E cancel \in BOOLEAN : Login(cancel)
  \/ \E i \in Calls, s \in ProviderStates : ProviderLoginSettle(i, s, TRUE)
  \/ \E i \in Calls : LoginResume(i)
  \/ \E cancel \in BOOLEAN : Logout(cancel)
  \/ \E i \in Calls, s \in ProviderStates : ProviderLogoutSettle(i, s, TRUE)
  \/ \E i \in Calls : LogoutResume(i)
  \/ LoadState
  \/ \E i \in Calls, ok \in BOOLEAN : BatchSettle(i, ok)
  \/ \E i \in Calls : LoadStateResume(i)
  \/ \E cancel \in BOOLEAN : OnClick(cancel)
  \/ \E v \in {NULL, Override} : SetUserDetails(v)
  \/ Render
  \/ FlyoutDismiss

LiveFairness ==
  \A i \in Calls :
    /\ WF_vars(\E s \in ProviderStates : ProviderLoginSettle(i, s, TRUE))
    /\ WF_vars(LoginResume(i))
    /\ WF_vars(\E s \in ProviderStates : ProviderLogoutSettle(i, s, TRUE))
    /\ WF_vars(LogoutResume(i))

LiveSpec == LiveInit /\ [][LiveNext]_vars /\ LiveFairness

\* invocation i is a login() that fired loginInitiated and was not cancelled
LoginUnderWay(i) == op[i] = "login" /\ Has(i, "loginInitiated") /\ i \notin cancelled

\* invocation i is a logout() that fired logoutInitiated and was not cancelled
LogoutUnderWay(i) == op[i] = "logout" /\ Has(i, "logoutInitiated") /\ i \notin cancelled

\* invocation i has fired its uncancelled "initiated" event and has not yet
\* returned with its outcome event fired exactly once
Pending(i) ==
  \/ /\ LoginUnderWay(i)
     /\ ~(/\ pc[i] = "done"
          /\ CountIn(trace[i], "loginCompleted")
               + CountIn(trace[i], "loginFailed") = 1)
  \/ /\ LogoutUnderWay(i)
     /\ ~(pc[i] = "done" /\ CountIn(trace[i], "logoutCompleted") = 1)

\* C19: with a provider whose calls return normally, every login() that
\* fired an uncancelled loginInitiated eventually returns having fired
\* exactly one of loginCompleted and loginFailed, and every logout() that
\* fired an uncancelled logoutInitiated eventually returns having fired
\* logoutCompleted: an invocation that is under way stays under way, and
\* again and again no invocation under way is without its outcome, so none
\* stays suspended forever.
C19_OutcomeEventuallyFires ==
  /\ [][ \A i \in Calls :
           /\ LoginUnderWay(i) => LoginUnderWay(i)'
           /\ LogoutUnderWay(i) => LogoutUnderWay(i)' ]_vars
  /\ []<>(\A i \in Calls : ~Pending(i))

\* a login() and a logout() have both run to their outcome event
C19_Witness ==
  \E i, j \in Calls :
    /\ LoginUnderWay(i) /\ pc[i] = "done" /\ Has(i, "loginFailed")
    /\ LogoutUnderWay(j) /\ pc[j] = "done" /\ Has(j, "logoutCompleted")

====
